---- MODULE Spec2Model ----
(***************************************************************************)
(* The wake-word detection session of src/test/server.py                   *)
(* (websocket_endpoint): one connection's accumulation buffer, score       *)
(* window and debounce clock, driven chunk by chunk; the sessions of two   *)
(* connections on the one event loop; and the synthesis handler            *)
(* (tts_endpoint) on the same loop.                                        *)
(*                                                                         *)
(* Units.  Scores and thresholds are in hundredths (0.35 is 35), times in  *)
(* tenths of a second (1.5 s is 15).  A moving average is kept as the      *)
(* exact fraction sum/len, a record [num, den], and compared by cross      *)
(* multiplication.  A sample is identified by its position in the inbound  *)
(* stream (the n-th sample the client sends is n), so that a lost, doubled *)
(* or displaced sample is visible.                                         *)
(***************************************************************************)
EXTENDS Integers, Sequences, FiniteSets, TLC

\* ---------------------------------------------------------------- constants
CHUNK_SIZE == 1280
THRESHOLD == 35
HIGH_THRESHOLD == 50
DEBOUNCE_SECONDS == 15
MAX_WINDOW_SIZE == 5

\* ------------------------------------------------------------------- bounds
\* Samples a session receives in all (six frames), the same with two wake
\* phrases configured (two frames), and the last reading of the loop clock.
MaxSamples == 7680
MaxSamplesPhrases == 2560
MaxTime == 30
\* Samples a session receives when it shares the loop with another handler,
\* connections accepted in all, and synthesis requests made in all.
MaxSamplesShared == 2560
MaxConnections == 3
MaxRequests == 2
\* Samples in a frame given to the normalizer on its own, and applications
\* of the normalizer to it.
FrameLen == 2
MaxPasses == 2
\* Sizes (in samples) of the inbound chunks: sub-frame, one frame, and two
\* frames and a half.
ChunkLens == {640, 1280, 3200}
\* Scores the engine returns.
Scores == {10, 40, 90}
\* Time that passes between two readings of the loop clock.
Deltas == {0, 7, 15}

VARIABLES
    pc,                   \* where the handler is: "new", "receive", "extract", "for", "closed"
    models,               \* model.models.keys(), the configured wake phrases in order
    audio_buffer,         \* samples received and not yet framed
    chunk,                \* the frame extracted last
    prediction,           \* the engine's answer for chunk: phrase -> score
    mdl,                  \* index in models of the phrase whose loop body ran last
    score_window,         \* the last scores, oldest first
    last_detection_time,  \* loop time of the last detection sent, 0 before any
    score,                \* locals of the last loop body run
    avg_score,
    should_detect,
    current_time,
    time_since_last,
    outcome,              \* how the last loop body ended
    sent,                 \* messages the client was sent, in order
    now,                  \* the last reading of the loop clock
    nrecv,                \* samples received so far
    nframes,              \* frames extracted so far
    steady,               \* every frame of the session so far has scored 0.4
    raised,               \* what ended the handler: the call that raised, "none" before
    error_sends,          \* send_json calls made for an error message
    model,                \* the engine get_model gave the handler: 0 before, else which construction
    cur,                  \* the connection whose handler the variables above are of
    parked,               \* the handler of the other connection, suspended
    accepted,             \* connections accepted so far
    wake_model,           \* the global wake_model: "None" or "Model"
    constructions,        \* engines Model(...) has constructed so far
    tts_pc,               \* where tts_endpoint is: "idle" when it is not running
    request,              \* the TTSRequest being handled
    mars5_model,          \* the global mars5_model: "None", "False" or "Model"
    mars5_ref_audio,      \* the global mars5_ref_audio is not None
    response,             \* the status of the last response of tts_endpoint, 0 before
    tts_calls,            \* the calls of model.tts made, in order
    nreq,                 \* synthesis requests made so far
    tts_error,            \* the exception raised in tts_endpoint for the request
    loads,                \* calls of torch.hub.load made so far
    frame,                \* a frame as the normalizer gets it
    normalized,           \* the frame as the normalizer leaves it
    passes                \* applications of the normalizer so far

\* One connection's handler.
session == <<pc, audio_buffer, chunk, prediction, mdl, score_window,
             last_detection_time, score, avg_score, should_detect, current_time,
             time_since_last, outcome, sent, nrecv, nframes, steady, raised,
             error_sends, model>>

\* The other connection and the count of connections.
loop == <<cur, parked, accepted>>

\* The synthesis handler and the engine it loads.
synthesis == <<tts_pc, request, mars5_model, mars5_ref_audio, response, tts_calls, nreq,
               tts_error, loads>>

\* The normalizer, applied to a frame on its own.
normalizer == <<frame, normalized, passes>>

vars == <<session, models, now, wake_model, constructions, loop, synthesis, normalizer>>

\* ------------------------------------------------------------------ helpers
RECURSIVE SumSeq(_)
SumSeq(s) == IF s = <<>> THEN 0 ELSE Head(s) + SumSeq(Tail(s))

\* The samples at stream positions a..b, in order.
Stream(a, b) == [i \in 1..(b - a + 1) |-> a + i - 1]

\* np.concatenate([audio_buffer, audio_chunk])
Concatenate(buf, data) == buf \o data

\* audio_buffer[:CHUNK_SIZE]
FrameOf(buf) == SubSeq(buf, 1, CHUNK_SIZE)

\* The rest taken one sample too far.
RestOfSkipping(buf) == SubSeq(buf, CHUNK_SIZE + 2, Len(buf))
\* audio_buffer[CHUNK_SIZE:]
RestOf(buf) == SubSeq(buf, CHUNK_SIZE + 1, Len(buf))

\* The push without the eviction.
PushUnbounded(w, s) == Append(w, s)
\* score_window.append(score); if len(score_window) > MAX_WINDOW_SIZE: pop(0)
Push(w, s) ==
    LET a == Append(w, s)
    IN  IF Len(a) > MAX_WINDOW_SIZE THEN Tail(a) ELSE a

\* The sum divided by the capacity instead of the length.
AverageOverCapacity(w) == [num |-> SumSeq(w), den |-> MAX_WINDOW_SIZE]
\* sum(score_window) / len(score_window) if score_window else 0
Average(w) ==
    IF Len(w) > 0 THEN [num |-> SumSeq(w), den |-> Len(w)]
                  ELSE [num |-> 0, den |-> 1]

\* Both thresholds required, and the high threshold alone.
ShouldDetectBoth(avg, s) == (avg.num > THRESHOLD * avg.den) /\ (s > HIGH_THRESHOLD)
ShouldDetectHighOnly(avg, s) == s > HIGH_THRESHOLD
\* The high threshold for the average as well.
ShouldDetectAboveHigh(avg, s) == (avg.num > HIGH_THRESHOLD * avg.den) \/ (s > HIGH_THRESHOLD)
\* (avg_score > THRESHOLD) or (score > HIGH_THRESHOLD)
ShouldDetect(avg, s) == (avg.num > THRESHOLD * avg.den) \/ (s > HIGH_THRESHOLD)

\* Any time past the last detection taken as enough.
DebounceOverAnyGap(since) == since > 0
\* time_since_last >= DEBOUNCE_SECONDS
DebounceOver(since) == since >= DEBOUNCE_SECONDS

\* The window left as it is after a detection.
WindowKept(w) == w
\* score_window = [] after a detection is sent
WindowCleared(w) == <<>>

\* The loop condition with > for >=.
AfterBodyStrict(buf) == IF Len(buf) > CHUNK_SIZE THEN "extract" ELSE "receive"
\* while len(audio_buffer) >= CHUNK_SIZE, evaluated on entering the loop and
\* on leaving its body.
AfterBody(buf) == IF Len(buf) >= CHUNK_SIZE THEN "extract" ELSE "receive"

\* The loop clock when the session starts.  loop.time() is the monotonic
\* clock, which counts from the start of the host; the least reading taken
\* here is the debounce interval, the least at which last_detection_time = 0
\* still lets the first detection through.
ClockAtAccept == DEBOUNCE_SECONDS

Detection(m, s, t) == [type |-> "detection", model |-> m, score |-> s, timestamp |-> t]
ErrorMessage == [type |-> "error", model |-> "", score |-> 0, timestamp |-> 0]

\* --------------------------------------------------------------------- Init
\* The locals of websocket_endpoint as lines 273-279 set them, at pc.
Locals(p) ==
    /\ pc = p
    /\ audio_buffer = <<>>
    /\ chunk = <<>>
    /\ prediction = <<>>
    /\ mdl = 0
    /\ score_window = <<>>
    /\ last_detection_time = 0
    /\ score = 0
    /\ avg_score = [num |-> 0, den |-> 1]
    /\ should_detect = FALSE
    /\ current_time = 0
    /\ time_since_last = 0
    /\ outcome = "none"
    /\ sent = <<>>
    /\ nrecv = 0
    /\ nframes = 0
    /\ steady = TRUE
    /\ raised = "none"
    /\ error_sends = 0

\* A handler that has not run: the same values as a record.
Fresh(p) ==
    [pc |-> p, audio_buffer |-> <<>>, chunk |-> <<>>, prediction |-> <<>>, mdl |-> 0,
     score_window |-> <<>>, last_detection_time |-> 0, score |-> 0,
     avg_score |-> [num |-> 0, den |-> 1], should_detect |-> FALSE,
     current_time |-> 0, time_since_last |-> 0, outcome |-> "none", sent |-> <<>>,
     nrecv |-> 0, nframes |-> 0, steady |-> TRUE, raised |-> "none", error_sends |-> 0,
     model |-> 0]

\* What tts_endpoint raises: HTTPException(status_code) or another exception.
HTTPException(status_code) == [kind |-> "HTTPException", status_code |-> status_code]
Exception == [kind |-> "Exception", status_code |-> 0]
NoError == [kind |-> "none", status_code |-> 0]

\* No synthesis request yet, the engine not loaded.
InitSynthesis ==
    /\ tts_pc = "idle"
    /\ request = [text |-> <<>>, deep_clone |-> FALSE]
    /\ mars5_model = "None"
    /\ mars5_ref_audio = FALSE
    /\ response = 0
    /\ tts_calls = <<>>
    /\ nreq = 0
    /\ tts_error = NoError
    /\ loads = 0

\* No frame given to the normalizer.
NoFrame == frame = <<>> /\ normalized = <<>> /\ passes = 0

\* One connection, accepted, alone on the loop.
InitSession ==
    /\ Locals("receive")
    /\ model = 1
    /\ now = ClockAtAccept
    /\ wake_model = "Model"
    /\ constructions = 1
    /\ cur = 1
    /\ parked = Fresh("new")
    /\ accepted = 1
    /\ InitSynthesis
    /\ NoFrame

\* get_model loads one wake phrase.
Init == models = <<"hey_jarvis">> /\ InitSession

\* The same handler over an engine whose models hold two wake phrases (the
\* loop at line 314 runs over whatever keys the engine has).
InitPhrases == models = <<"hey_jarvis", "alexa">> /\ InitSession

\* ------------------------------------------------------------------ actions
locals == <<score, avg_score, should_detect, current_time, time_since_last, outcome>>

\* What a step of a session handler leaves alone.
elsewhere == <<models, wake_model, constructions, loop, synthesis, normalizer>>

\* The loop runs one handler at a time: tts_endpoint has no await, so from
\* its first line to its response no other handler takes a step.
LoopFree == tts_pc = "idle"

\* data = await websocket.receive_bytes(); frombuffer; concatenate; the while
\* condition.
Receive(limit) ==
    /\ LoopFree
    /\ pc = "receive"
    /\ \E n \in ChunkLens :
        /\ nrecv + n <= limit
        /\ audio_buffer' = Concatenate(audio_buffer, Stream(nrecv + 1, nrecv + n))
        /\ nrecv' = nrecv + n
    /\ pc' = AfterBody(audio_buffer')
    /\ UNCHANGED <<chunk, prediction, mdl, score_window, last_detection_time,
                   locals, sent, now, nframes, steady, raised, error_sends, model, elsewhere>>

ReceiveBytes == Receive(MaxSamples)

ReceiveBytesPhrases == Receive(MaxSamplesPhrases)

ReceiveBytesShared == Receive(MaxSamplesShared)

\* The handler returns: its locals are gone with its frame.
Return ==
    /\ LoopFree
    /\ pc' = "closed"
    /\ audio_buffer' = <<>>
    /\ chunk' = <<>>
    /\ prediction' = <<>>
    /\ mdl' = 0
    /\ score_window' = <<>>
    /\ last_detection_time' = 0
    /\ score' = 0
    /\ avg_score' = [num |-> 0, den |-> 1]
    /\ should_detect' = FALSE
    /\ current_time' = 0
    /\ time_since_last' = 0
    /\ outcome' = "none"
    /\ nrecv' = 0
    /\ nframes' = 0
    /\ steady' = TRUE
    /\ model' = 0
    /\ UNCHANGED <<now, elsewhere>>

\* A disconnect answered with an error message.
DisconnectReporting ==
    /\ pc = "receive"
    /\ Return
    /\ raised' = "receive_bytes: WebSocketDisconnect"
    /\ sent' = Append(sent, ErrorMessage)
    /\ error_sends' = error_sends + 1
\* receive_bytes raises WebSocketDisconnect: logged, nothing is sent.
Disconnect ==
    /\ pc = "receive"
    /\ Return
    /\ raised' = "receive_bytes: WebSocketDisconnect"
    /\ UNCHANGED <<sent, error_sends>>

\* The handler that sends the error message again when the send fails.
FaultRetrying(call) ==
    /\ \E ok \in BOOLEAN :
        /\ sent' = IF ok THEN Append(sent, ErrorMessage) ELSE sent
        /\ error_sends' = IF ok THEN error_sends + 1 ELSE error_sends + 2
    /\ raised' = call
    /\ Return
\* The except Exception handler: one attempt to send the error message.
Fault(call) ==
    /\ \E ok \in BOOLEAN : sent' = IF ok THEN Append(sent, ErrorMessage) ELSE sent
    /\ error_sends' = error_sends + 1
    /\ raised' = call
    /\ Return

\* receive_bytes raises something else (a text message, a broken transport).
ReceiveFails ==
    /\ pc = "receive"
    /\ Fault("receive_bytes")

\* The message has an odd number of bytes: np.frombuffer raises ValueError.
FrombufferFails ==
    /\ pc = "receive"
    /\ Fault("frombuffer")

\* One turn of the drain loop up to the engine's answer.
ExtractFrame ==
    /\ LoopFree
    /\ pc = "extract"
    /\ chunk' = FrameOf(audio_buffer)
    /\ audio_buffer' = RestOf(audio_buffer)
    /\ nframes' = nframes + 1
    /\ prediction' \in [1..Len(models) -> Scores]
    /\ steady' = (steady /\ \A i \in 1..Len(models) : prediction'[i] = 40)
    /\ mdl' = 0
    /\ pc' = "for"
    /\ UNCHANGED <<score_window, last_detection_time, locals, sent, now, nrecv,
                   raised, error_sends, model, elsewhere>>

\* model.predict raises.
PredictFails ==
    /\ pc = "extract"
    /\ Fault("predict")

\* The head of the for loop, and the part of its body every score goes
\* through; on leaving the body, the next phrase or the while condition.
Smooth ==
    /\ LoopFree
    /\ pc = "for"
    /\ mdl' = mdl + 1
    /\ score' = prediction[mdl']
    /\ avg_score' = Average(Push(score_window, score'))
    /\ should_detect' = ShouldDetect(avg_score', score')
    /\ pc' = IF mdl' < Len(models) THEN "for" ELSE AfterBody(audio_buffer)
    /\ UNCHANGED <<audio_buffer, chunk, prediction, nrecv, nframes, steady,
                   raised, error_sends, model, elsewhere>>

\* An observation below the thresholds that is not kept in the window.
NoDetectionDroppingScore ==
    /\ Smooth
    /\ ~should_detect'
    /\ outcome' = "below"
    /\ UNCHANGED <<score_window, last_detection_time, current_time, time_since_last,
                   sent, now>>
\* The score reaches no threshold.
NoDetection ==
    /\ Smooth
    /\ ~should_detect'
    /\ score_window' = Push(score_window, score')
    /\ outcome' = "below"
    /\ UNCHANGED <<last_detection_time, current_time, time_since_last, sent, now>>

\* current_time = loop.time(): a reading not before the last one.
ReadClock ==
    /\ \E d \in Deltas : now + d <= MaxTime /\ current_time' = now + d
    /\ now' = current_time'
    /\ time_since_last' = current_time' - last_detection_time

\* A suppressed observation that restarts the debounce clock.
DebouncedRestartingClock ==
    /\ Smooth
    /\ should_detect'
    /\ ReadClock
    /\ ~DebounceOver(time_since_last')
    /\ score_window' = Push(score_window, score')
    /\ last_detection_time' = current_time'
    /\ outcome' = "debounced"
    /\ UNCHANGED sent
\* A threshold is reached within the debounce interval.
Debounced ==
    /\ Smooth
    /\ should_detect'
    /\ ReadClock
    /\ ~DebounceOver(time_since_last')
    /\ score_window' = Push(score_window, score')
    /\ outcome' = "debounced"
    /\ UNCHANGED <<last_detection_time, sent>>

\* A detection put before the messages already sent.
SendDetectionPrepending ==
    /\ Smooth
    /\ should_detect'
    /\ ReadClock
    /\ DebounceOver(time_since_last')
    /\ sent' = <<Detection(models[mdl'], score', current_time')>> \o sent
    /\ last_detection_time' = current_time'
    /\ score_window' = WindowCleared(Push(score_window, score'))
    /\ outcome' = "sent"
\* send_json returns.
SendDetection ==
    /\ Smooth
    /\ should_detect'
    /\ ReadClock
    /\ DebounceOver(time_since_last')
    /\ sent' = Append(sent, Detection(models[mdl'], score', current_time'))
    /\ last_detection_time' = current_time'
    /\ score_window' = WindowCleared(Push(score_window, score'))
    /\ outcome' = "sent"

\* A failed send that restarts the debounce clock all the same.
SendFailsRestartingClock ==
    /\ Smooth
    /\ should_detect'
    /\ ReadClock
    /\ DebounceOver(time_since_last')
    /\ score_window' = Push(score_window, score')
    /\ last_detection_time' = current_time'
    /\ outcome' = "send_failed"
    /\ UNCHANGED sent
\* send_json raises: logged, and the loop goes on.
SendFails ==
    /\ Smooth
    /\ should_detect'
    /\ ReadClock
    /\ DebounceOver(time_since_last')
    /\ score_window' = Push(score_window, score')
    /\ outcome' = "send_failed"
    /\ UNCHANGED <<last_detection_time, sent>>

Next ==
    \/ ReceiveBytes
    \/ Disconnect
    \/ ReceiveFails
    \/ FrombufferFails
    \/ ExtractFrame
    \/ PredictFails
    \/ NoDetection
    \/ Debounced
    \/ SendDetection
    \/ SendFails

Spec == Init /\ [][Next]_vars

NextPhrases ==
    \/ ReceiveBytesPhrases
    \/ Disconnect
    \/ ReceiveFails
    \/ FrombufferFails
    \/ ExtractFrame
    \/ PredictFails
    \/ NoDetection
    \/ Debounced
    \/ SendDetection
    \/ SendFails

SpecPhrases == InitPhrases /\ [][NextPhrases]_vars

\* ----------------------------------------------------------------- sessions
\* Two connections on the one event loop. The variables of `session` are the
\* handler the loop is running; the handler of the other connection waits in
\* `parked`. The loop changes handler where the running one awaits
\* (receive_bytes) or is not running. The await inside send_json falls in
\* the middle of a loop body; the handlers running there read and write
\* none of this handler's locals, so the body stays one step.
SessionState ==
    [pc |-> pc, audio_buffer |-> audio_buffer, chunk |-> chunk,
     prediction |-> prediction, mdl |-> mdl, score_window |-> score_window,
     last_detection_time |-> last_detection_time, score |-> score,
     avg_score |-> avg_score, should_detect |-> should_detect,
     current_time |-> current_time, time_since_last |-> time_since_last,
     outcome |-> outcome, sent |-> sent, nrecv |-> nrecv, nframes |-> nframes,
     steady |-> steady, raised |-> raised, error_sends |-> error_sends,
     model |-> model]

\* The loop runs the handler r from where it is.
Resume(r) ==
    /\ pc' = r.pc
    /\ audio_buffer' = r.audio_buffer
    /\ chunk' = r.chunk
    /\ prediction' = r.prediction
    /\ mdl' = r.mdl
    /\ score_window' = r.score_window
    /\ last_detection_time' = r.last_detection_time
    /\ score' = r.score
    /\ avg_score' = r.avg_score
    /\ should_detect' = r.should_detect
    /\ current_time' = r.current_time
    /\ time_since_last' = r.time_since_last
    /\ outcome' = r.outcome
    /\ sent' = r.sent
    /\ nrecv' = r.nrecv
    /\ nframes' = r.nframes
    /\ steady' = r.steady
    /\ raised' = r.raised
    /\ error_sends' = r.error_sends
    /\ model' = r.model

\* The running handler awaits or is not running.
Awaiting == pc \in {"new", "receive", "closed"}

\* A loop that keeps one score window for both handlers.
SwitchSharingWindow ==
    /\ LoopFree
    /\ Awaiting
    /\ parked' = SessionState
    /\ Resume([parked EXCEPT !.score_window = score_window])
    /\ cur' = 3 - cur
    /\ UNCHANGED <<models, now, wake_model, constructions, accepted, synthesis, normalizer>>
\* The loop turns to the other connection.
Switch ==
    /\ LoopFree
    /\ Awaiting
    /\ parked' = SessionState
    /\ Resume(parked)
    /\ cur' = 3 - cur
    /\ UNCHANGED <<models, now, wake_model, constructions, accepted, synthesis, normalizer>>

\* A connection that starts from the buffer, window and detection time of
\* the other connection's handler.
AcceptCarryingOver ==
    /\ LoopFree
    /\ pc \in {"new", "closed"}
    /\ accepted < MaxConnections
    /\ accepted' = accepted + 1
    /\ constructions' = IF wake_model = "None" THEN constructions + 1 ELSE constructions
    /\ wake_model' = "Model"
    /\ Resume([Fresh("receive") EXCEPT
                   !.model = constructions',
                   !.audio_buffer = parked.audio_buffer,
                   !.score_window = parked.score_window,
                   !.last_detection_time = parked.last_detection_time])
    /\ UNCHANGED <<models, now, cur, parked, synthesis, normalizer>>
\* A connection that gets an engine of its own.
AcceptConstructing ==
    /\ LoopFree
    /\ pc \in {"new", "closed"}
    /\ accepted < MaxConnections
    /\ accepted' = accepted + 1
    /\ constructions' = constructions + 1
    /\ wake_model' = "Model"
    /\ Resume([Fresh("receive") EXCEPT !.model = constructions'])
    /\ UNCHANGED <<models, now, cur, parked, synthesis, normalizer>>
\* A client connects (again, where a handler has returned): accept,
\* get_model, which constructs the engine if there is none, and the locals
\* of lines 273-279.
Accept ==
    /\ LoopFree
    /\ pc \in {"new", "closed"}
    /\ accepted < MaxConnections
    /\ accepted' = accepted + 1
    /\ constructions' = IF wake_model = "None" THEN constructions + 1 ELSE constructions
    /\ wake_model' = "Model"
    /\ Resume([Fresh("receive") EXCEPT !.model = constructions'])
    /\ UNCHANGED <<models, now, cur, parked, synthesis, normalizer>>

\* get_model raises while it builds the engine: the exception leaves the
\* handler before its try, nothing is sent, wake_model stays None.
GetModelFails ==
    /\ LoopFree
    /\ pc \in {"new", "closed"}
    /\ wake_model = "None"
    /\ accepted < MaxConnections
    /\ accepted' = accepted + 1
    /\ Resume([Fresh("closed") EXCEPT !.raised = "get_model"])
    /\ UNCHANGED <<models, now, wake_model, constructions, cur, parked, synthesis,
                   normalizer>>

InitSessions ==
    /\ models = <<"hey_jarvis">>
    /\ Locals("new")
    /\ model = 0
    /\ now = ClockAtAccept
    /\ wake_model = "None"
    /\ constructions = 0
    /\ cur = 1
    /\ parked = Fresh("new")
    /\ accepted = 0
    /\ InitSynthesis
    /\ NoFrame

NextSessions ==
    \/ Accept
    \/ GetModelFails
    \/ Switch
    \/ ReceiveBytesShared
    \/ Disconnect
    \/ ReceiveFails
    \/ FrombufferFails
    \/ ExtractFrame
    \/ PredictFails
    \/ NoDetection
    \/ Debounced
    \/ SendDetection
    \/ SendFails

SpecSessions == InitSessions /\ [][NextSessions]_vars

\* ---------------------------------------------------------------- synthesis
\* tts_endpoint, a coroutine without an await: from the request to the
\* response it holds the loop (LoopFree), through torch.hub.load and
\* model.tts as well.
Whitespace == {" ", "\t"}

\* str.strip(): the text without its leading and trailing whitespace.
RECURSIVE LStrip(_)
LStrip(t) == IF t # <<>> /\ Head(t) \in Whitespace THEN LStrip(Tail(t)) ELSE t

RECURSIVE RStrip(_)
RStrip(t) ==
    IF t # <<>> /\ t[Len(t)] \in Whitespace THEN RStrip(SubSeq(t, 1, Len(t) - 1)) ELSE t

Strip(t) == RStrip(LStrip(t))

\* A text check that takes whitespace for text.
TextMissingIfEmpty(t) == t = <<>>
\* not request.text or not request.text.strip()
TextMissing(t) == t = <<>> \/ Strip(t) = <<>>

\* The texts of the requests, as sequences of characters.
Texts == {<<>>, <<" ", "\t">>, <<" ", "h", "i">>}

\* A call that is shallow whatever the request asks for.
TtsCallShallow(req, ref) ==
    [text |-> req.text,
     ref_audio |-> IF ref THEN "mars5_ref_audio" ELSE "dummy_ref",
     ref_transcript |-> FALSE,
     deep_clone |-> FALSE]
\* The arguments of model.tts for a request, by the reference audio loaded:
\* the text, the reference, whether the transcript goes with it, and the
\* deep_clone of the configuration.
TtsCall(req, ref) ==
    LET use_deep_clone == req.deep_clone /\ ref
    IN  [text |-> req.text,
         ref_audio |-> IF ref THEN "mars5_ref_audio" ELSE "dummy_ref",
         ref_transcript |-> use_deep_clone,
         deep_clone |-> use_deep_clone]

\* The handler's other variables.
outside == <<session, models, now, wake_model, constructions, loop, normalizer>>

\* POST /tts: the handler starts.
TtsRequest ==
    /\ tts_pc = "idle"
    /\ Awaiting
    /\ nreq < MaxRequests
    /\ nreq' = nreq + 1
    /\ request' \in [text : Texts, deep_clone : BOOLEAN]
    /\ response' = 0
    /\ tts_error' = NoError
    /\ tts_pc' = "get_mars5_model"
    /\ UNCHANGED <<outside, mars5_model, mars5_ref_audio, tts_calls, loads>>

\* get_mars5_model that tries the load again after a failed one.
ModelKeptUnlessFailed ==
    /\ tts_pc = "get_mars5_model"
    /\ mars5_model # "None"
    /\ IF mars5_model = "False"
       THEN mars5_model' \in {"Model", "False"} /\ loads' = loads + 1
       ELSE UNCHANGED <<mars5_model, loads>>
    /\ tts_pc' = "validate"
    /\ UNCHANGED <<outside, request, mars5_ref_audio, response, tts_calls, nreq, tts_error>>
\* get_mars5_model with the engine loaded or marked as failed: no load.
ModelKept ==
    /\ tts_pc = "get_mars5_model"
    /\ mars5_model # "None"
    /\ tts_pc' = "validate"
    /\ UNCHANGED <<outside, request, mars5_model, mars5_ref_audio, response, tts_calls,
                   nreq, tts_error, loads>>

\* The first get_mars5_model: torch.hub.load returns, the reference audio is
\* there or not.
LoadModel ==
    /\ tts_pc = "get_mars5_model"
    /\ mars5_model = "None"
    /\ loads' = loads + 1
    /\ mars5_model' = "Model"
    /\ mars5_ref_audio' \in BOOLEAN
    /\ tts_pc' = "validate"
    /\ UNCHANGED <<outside, request, response, tts_calls, nreq, tts_error>>

\* The load raises: mars5_model = False.
LoadFails ==
    /\ tts_pc = "get_mars5_model"
    /\ mars5_model = "None"
    /\ loads' = loads + 1
    /\ mars5_model' = "False"
    /\ tts_pc' = "validate"
    /\ UNCHANGED <<outside, request, mars5_ref_audio, response, tts_calls, nreq, tts_error>>

\* The handler ends with a response of the status given.
Respond(status) ==
    /\ response' = status
    /\ tts_pc' = "idle"
    /\ UNCHANGED <<outside, request, mars5_model, mars5_ref_audio, nreq, loads>>

\* except clauses that wrap every exception as 500.
StatusRewrapped(e) == 500
\* except HTTPException: raise; except Exception: HTTPException(500).
Status(e) == IF e.kind = "HTTPException" THEN e.status_code ELSE 500

\* An exception raised in the try of the handler.
Raise(e) ==
    /\ tts_error' = e
    /\ Respond(Status(e))

\* A handler that goes on to model.tts without an engine and fails there.
ModelUnavailableGenerating ==
    /\ tts_pc = "validate"
    /\ mars5_model # "Model"
    /\ tts_calls' = Append(tts_calls, TtsCall(request, mars5_ref_audio))
    /\ Raise(Exception)
\* model is False or model is None: HTTPException(503).
ModelUnavailable ==
    /\ tts_pc = "validate"
    /\ mars5_model # "Model"
    /\ Raise(HTTPException(503))
    /\ UNCHANGED tts_calls

\* A text check made whether or not there is an engine.
TextRequiredFirst ==
    /\ tts_pc = "validate"
    /\ TextMissing(request.text)
    /\ Raise(HTTPException(400))
    /\ UNCHANGED tts_calls
\* HTTPException(400, "Text is required").
TextRequired ==
    /\ tts_pc = "validate"
    /\ mars5_model = "Model"
    /\ TextMissing(request.text)
    /\ Raise(HTTPException(400))
    /\ UNCHANGED tts_calls

\* The configuration is chosen and model.tts is called.
Generate ==
    /\ tts_pc = "validate"
    /\ mars5_model = "Model"
    /\ ~TextMissing(request.text)
    /\ tts_calls' = Append(tts_calls, TtsCall(request, mars5_ref_audio))
    /\ tts_pc' = "tts"
    /\ UNCHANGED <<outside, request, mars5_model, mars5_ref_audio, response, nreq,
                   tts_error, loads>>

\* model.tts returns and the audio is encoded: 200.
Generated ==
    /\ tts_pc = "tts"
    /\ Respond(200)
    /\ UNCHANGED <<tts_calls, tts_error>>

\* model.tts or the encoding raises: HTTPException(500).
GenerationFails ==
    /\ tts_pc = "tts"
    /\ Raise(Exception)
    /\ UNCHANGED tts_calls

NextTts ==
    \/ TtsRequest
    \/ ModelKept
    \/ LoadModel
    \/ LoadFails
    \/ ModelUnavailable
    \/ TextRequired
    \/ Generate
    \/ Generated
    \/ GenerationFails
    \/ ReceiveBytesShared
    \/ Disconnect
    \/ ReceiveFails
    \/ FrombufferFails
    \/ ExtractFrame
    \/ PredictFails
    \/ NoDetection
    \/ Debounced
    \/ SendDetection
    \/ SendFails

\* One detection session and the synthesis requests made while it runs.
SpecTts == Init /\ [][NextTts]_vars

\* --------------------------------------------------------------- normalizer
\* Lines 300-308 applied to a frame of int16 samples. The product is taken
\* in exact arithmetic; the samples below are ones on which the floating
\* point product of the code truncates to the same integer.
INT16_MIN == -32768
INT16_MAX == 32767
Int16 == INT16_MIN..INT16_MAX

QUIET_THRESHOLD == 5000
target_peak == 10000
MAX_GAIN == 3

Samples == {-32768, -4999, -3400, -1, 0, 100, 3334, 4999, 5000, 32767}

\* np.abs on int16: the negation of -32768 wraps to -32768.
AbsInt16(x) == IF x = INT16_MIN THEN INT16_MIN ELSE IF x < 0 THEN -x ELSE x

\* np.abs(chunk).max()
MaxAmplitude(c) ==
    CHOOSE m \in {AbsInt16(c[i]) : i \in 1..Len(c)} :
        \A i \in 1..Len(c) : AbsInt16(c[i]) <= m

\* max_amplitude > 0 and max_amplitude < 5000
NeedsBoost(m) == m > 0 /\ m < QUIET_THRESHOLD

\* A gain without the cap.
GainUncapped(m) == [num |-> target_peak, den |-> m]
\* min(target_peak / max_amplitude, 3.0), as a fraction.
Gain(m) ==
    IF target_peak <= MAX_GAIN * m THEN [num |-> target_peak, den |-> m]
    ELSE [num |-> MAX_GAIN, den |-> 1]

\* The integer part of n / d, towards zero, for d > 0.
Trunc(n, d) == IF n >= 0 THEN n \div d ELSE -((-n) \div d)

\* The low 16 bits of v as a signed number.
Wrap16(v) == ((v - INT16_MIN) % 65536) + INT16_MIN

\* A clip to the target peak.
ClipToTarget(v) ==
    IF v < -target_peak + 1 THEN -target_peak + 1
    ELSE IF v > target_peak - 1 THEN target_peak - 1 ELSE v
\* np.clip(chunk_normalized, -32768, 32767)
Clip(v) == IF v < INT16_MIN THEN INT16_MIN ELSE IF v > INT16_MAX THEN INT16_MAX ELSE v

\* .astype(np.int16) of a float: truncation; out of the range of int16 the
\* conversion is undefined and gives the low 16 bits or the nearest bound,
\* by the build.
AsInt16(v, wraps) ==
    IF v \in Int16 THEN v ELSE IF wraps THEN Wrap16(v) ELSE Clip(v)

\* One application of the normalizer: to the frame, then to its own output.
Pass ==
    /\ passes < MaxPasses
    /\ passes' = passes + 1
    /\ frame' = IF passes = 0 THEN frame ELSE normalized
    /\ UNCHANGED <<session, models, now, wake_model, constructions, loop, synthesis>>

\* The frame is silent or loud enough: chunk is left as it is.
LeaveFrame ==
    /\ Pass
    /\ ~NeedsBoost(MaxAmplitude(frame'))
    /\ normalized' = frame'

\* The frame is quiet: gain, conversion back to int16, clip.
BoostFrame ==
    /\ Pass
    /\ NeedsBoost(MaxAmplitude(frame'))
    /\ \E wraps \in [1..Len(frame') -> BOOLEAN] :
          normalized' =
              [i \in 1..Len(frame') |->
                  Clip(AsInt16(Trunc(frame'[i] * Gain(MaxAmplitude(frame')).num,
                                     Gain(MaxAmplitude(frame')).den),
                               wraps[i]))]

InitNormalize ==
    /\ models = <<"hey_jarvis">>
    /\ Locals("receive")
    /\ model = 1
    /\ now = ClockAtAccept
    /\ wake_model = "Model"
    /\ constructions = 1
    /\ cur = 1
    /\ parked = Fresh("new")
    /\ accepted = 1
    /\ InitSynthesis
    /\ frame \in [1..FrameLen -> Samples]
    /\ normalized = <<>>
    /\ passes = 0

NextNormalize ==
    \/ LeaveFrame
    \/ BoostFrame

\* The normalizer on every frame of FrameLen samples, twice over.
SpecNormalize == InitNormalize /\ [][NextNormalize]_vars

\* ------------------------------------------------------------------- claims
\* What the claims are stated in: the detections the client was sent, and the
\* window and mean of an observation written out from the scores.

IsDetection(m) == m.type = "detection"

Detections == SelectSeq(sent, IsDetection)

\* The last n elements of w (all of w when it has fewer).
Recent(w, n) == IF Len(w) > n THEN [i \in 1..n |-> w[Len(w) - n + i]] ELSE w

RECURSIVE TotalTo(_, _)
TotalTo(w, k) == IF k = 0 THEN 0 ELSE w[k] + TotalTo(w, k - 1)

\* The window an observation of score s leaves when it is not reset.
Observed(w, s) == Recent(w \o <<s>>, MAX_WINDOW_SIZE)

\* avg > LOW or score > HIGH, on the window after the push.
FireWorthy(w, s) ==
    \/ TotalTo(Observed(w, s), Len(Observed(w, s))) > THRESHOLD * Len(Observed(w, s))
    \/ s > HIGH_THRESHOLD

\* This step is the loop body of one phrase, and the score it observes.
BodyStep == pc = "for"
BodyScore == prediction[mdl + 1]

\* This step sends a detection.
Emits == Len(sent') = Len(sent) + 1 /\ IsDetection(sent'[Len(sent')])

\* No detection sent yet, or the clock read in this step is at least the
\* debounce interval past the last one sent.
Cooled ==
    \/ Detections = <<>>
    \/ current_time' - Detections[Len(Detections)].timestamp >= DEBOUNCE_SECONDS

\* Every frame extracted so far has been through the loop body.
FramesObserved == pc \in {"receive", "extract"} /\ nframes >= 1

C2_DebounceSeparation ==
    \A i, j \in 1..Len(Detections) :
        i < j => Detections[j].timestamp - Detections[i].timestamp >= DEBOUNCE_SECONDS

\* C2 witness: two detections were sent.
C2_Witness == Len(Detections) >= 2

\* C3: no sample is lost, doubled or displaced: the frame extracted last is
\* the stream's samples of its ordinal, and the buffer holds exactly the
\* samples received after the last extracted frame, in order (so the frames
\* extracted so far followed by the buffer are the chunks received so far).
C3_AssemblerKeepsSamples ==
    pc # "closed" =>
        /\ nframes >= 1 => chunk = Stream((nframes - 1) * CHUNK_SIZE + 1, nframes * CHUNK_SIZE)
        /\ audio_buffer = Stream(nframes * CHUNK_SIZE + 1, nrecv)

\* C3 witness: two frames were cut from chunks that do not end on a frame
\* boundary, and half a frame is left in the buffer.
C3_Witness ==
    /\ pc = "receive"
    /\ nframes = 2
    /\ nrecv = 2 * CHUNK_SIZE + 640
    /\ Len(audio_buffer) = 640

\* C4: while the session waits for the next chunk, the buffer holds less than
\* one frame, and every whole frame received has been extracted.
C4_DrainedBeforeReceive ==
    pc = "receive" =>
        /\ Len(audio_buffer) < CHUNK_SIZE
        /\ nframes = nrecv \div CHUNK_SIZE

\* C4 witness: the session waits again after one chunk that carried two
\* frames and a half.
C4_Witness ==
    /\ pc = "receive"
    /\ nrecv = 3200
    /\ nframes = 2
    /\ outcome # "none"

\* C5: the window never holds more than 5 scores, and an observation that
\* does not reset it leaves the most recent up-to-5 scores in arrival order:
\* pushed onto a full window, the new score evicts the oldest and only it.
C5_WindowBounded ==
    /\ [](Len(score_window) <= MAX_WINDOW_SIZE)
    /\ [][BodyStep /\ ~Emits =>
            /\ Len(score_window') = IF Len(score_window) < MAX_WINDOW_SIZE
                                    THEN Len(score_window) + 1
                                    ELSE MAX_WINDOW_SIZE
            /\ score_window'[Len(score_window')] = BodyScore
            /\ \A i \in 1..(Len(score_window') - 1) :
                   score_window'[i] = score_window[Len(score_window) - Len(score_window') + 1 + i]
         ]_vars

\* C5 witness: six frames were observed with no detection sent, so the sixth
\* score was pushed onto a full window.
C5_Witness ==
    /\ FramesObserved
    /\ nframes = 6
    /\ Detections = <<>>
    /\ Len(score_window) = MAX_WINDOW_SIZE
    /\ score_window[MAX_WINDOW_SIZE] = score

\* C6: the moving average an observation decides on is the arithmetic mean of
\* the window after the push (and after the eviction when it was full), a
\* window that is never empty.
C6_AverageIsMean ==
    [][BodyStep =>
        /\ avg_score'.den = Len(Observed(score_window, BodyScore))
        /\ avg_score'.den >= 1
        /\ avg_score'.num = TotalTo(Observed(score_window, BodyScore), avg_score'.den)
      ]_vars

\* C6 witness: an average over a window of three different scores.
C6_Witness ==
    /\ FramesObserved
    /\ score_window = <<10, 40, 90>>
    /\ avg_score = [num |-> 140, den |-> 3]

\* C7: a step that sends a detection sets the last-emitted time to the time
\* of that emission and empties the window; the observation after it is then
\* the sole window element and its moving average is its own score.
C7_EmissionResets ==
    [][BodyStep =>
        /\ Emits => /\ last_detection_time' = current_time'
                    /\ last_detection_time' = sent'[Len(sent')].timestamp
                    /\ score_window' = <<>>
        /\ outcome = "sent" /\ ~Emits =>
                    /\ score_window' = <<BodyScore>>
                    /\ avg_score'.num = BodyScore * avg_score'.den
      ]_vars

\* C7 witness: the observation that follows a sent detection is alone in the
\* window.
C7_Witness ==
    /\ FramesObserved
    /\ Len(Detections) = 1
    /\ last_detection_time = Detections[1].timestamp
    /\ outcome = "debounced"
    /\ score_window = <<score>>
    /\ nframes >= 3

\* C8: a fire-worthy observation less than 1.5 s after the last detection
\* sends nothing, keeps the window (the score is pushed, nothing is cleared)
\* and leaves the last-emitted time as it was.
C8_SuppressedKeepsState ==
    [][BodyStep /\ FireWorthy(score_window, BodyScore) /\ ~Cooled =>
        /\ sent' = sent
        /\ last_detection_time' = last_detection_time
        /\ score_window' = Observed(score_window, BodyScore)
      ]_vars

\* C8 witness: two observations in a row were suppressed after a detection,
\* the later one 0.7 s after the detection.
C8_Witness ==
    /\ FramesObserved
    /\ outcome = "debounced"
    /\ Len(Detections) = 1
    /\ Len(score_window) = 2
    /\ current_time = Detections[1].timestamp + 7
    /\ last_detection_time = Detections[1].timestamp

Faulted == raised \notin {"none", "receive_bytes: WebSocketDisconnect"}

\* The error messages among the messages sent.
Errors == SelectSeq(sent, LAMBDA m : m.type = "error")

\* C11 as stated: when the scoring engine fails on a frame only that frame is
\* dropped: the session is not torn down, the rest of its buffer, its window
\* and its debounce state are kept, and the loop goes on to the next frame.
C11_ScoringFailureDropsFrame ==
    [][raised' = "predict" =>
          /\ pc' = AfterBody(audio_buffer')
          /\ audio_buffer' = RestOf(audio_buffer)
          /\ score_window' = score_window
          /\ last_detection_time' = last_detection_time]_vars

\* C12 as stated: a chunk with an odd number of bytes never ends the session:
\* the session keeps what it has buffered and goes on receiving.
C12_OddChunkKept ==
    [][raised' = "frombuffer" =>
          /\ pc' = "receive"
          /\ audio_buffer' = audio_buffer
          /\ score_window' = score_window
          /\ last_detection_time' = last_detection_time]_vars

\* C13 as stated: a transport failure, a disconnect seen on receive or a
\* detection event that cannot be written, terminates the session.
C13_TransportFailureTerminates ==
    [][\/ raised' = "receive_bytes: WebSocketDisconnect"
       \/ BodyStep /\ outcome' = "send_failed"
       => pc' = "closed"]_vars

\* C14: frames are scored one at a time, each once, in extraction order: the
\* k-th frame extracted is the k-th 1280 samples of the stream and gets its
\* prediction at its extraction and at no other step; a frame is extracted
\* and a chunk is received only when every phrase of the frame before has
\* been through its loop body; a loop body takes the next phrase of the
\* current frame and leaves frame and buffer alone; and a detection is sent
\* only by a loop body, for the current frame, after everything sent before
\* and with a timestamp not before theirs.
C14_FramesInOrder ==
    [][/\ nframes' # nframes /\ pc' # "closed" =>
            /\ pc = "extract"
            /\ nframes > 0 => mdl = Len(models)
            /\ nframes' = nframes + 1
            /\ chunk' = Stream(CHUNK_SIZE * nframes + 1, CHUNK_SIZE * nframes')
            /\ prediction' \in [1..Len(models) -> Scores]
            /\ mdl' = 0
            /\ sent' = sent
       /\ prediction' # prediction /\ pc' # "closed" => nframes' = nframes + 1
       /\ nrecv' # nrecv /\ pc' # "closed" =>
            /\ pc = "receive"
            /\ nframes > 0 => mdl = Len(models)
            /\ nframes' = nframes
            /\ sent' = sent
       /\ BodyStep /\ pc' # "closed" =>
            /\ mdl' = mdl + 1
            /\ score' = prediction[mdl']
            /\ <<chunk', audio_buffer', nframes', nrecv'>> =
                   <<chunk, audio_buffer, nframes, nrecv>>
       /\ sent' # sent /\ pc' # "closed" =>
            /\ BodyStep
            /\ sent' = Append(sent, Detection(models[mdl'], prediction[mdl'],
                                              current_time'))
            /\ \A i \in 1..Len(sent) : sent[i].timestamp <= current_time']_vars

\* C14 witness: three frames have gone through the loop, two of them sent a
\* detection, the earlier frame's first, and a fourth frame is buffered.
C14_Witness ==
    /\ pc = "extract"
    /\ nframes = 3
    /\ Len(sent) = 2
    /\ IsDetection(sent[1]) /\ IsDetection(sent[2])
    /\ sent[1].timestamp < sent[2].timestamp

\* C20: a handler ended by an exception other than a disconnect has made one
\* attempt to send an error message, has sent at most that one, after every
\* detection, and is closed; a handler not ended so has made no attempt.
C20_FaultSendsOneError ==
    /\ Faulted =>
          /\ pc = "closed"
          /\ error_sends = 1
          /\ Len(Errors) <= 1
          /\ \A i \in 1..Len(sent) : sent[i].type = "error" => i = Len(sent)
    /\ ~Faulted =>
          /\ error_sends = 0
          /\ Errors = <<>>

\* C20 witness: the engine raised on a frame after a detection had been
\* sent, and the error message followed it.
C20_Witness ==
    /\ raised = "predict"
    /\ pc = "closed"
    /\ Len(sent) = 2
    /\ IsDetection(sent[1])
    /\ sent[2] = ErrorMessage

\* A step in which a connection is accepted and its handler reaches its loop.
Accepts == pc \in {"new", "closed"} /\ pc' = "receive" /\ cur' = cur

\* C15: the handler of every connection accepted starts with an empty
\* buffer, an empty score window, no detection time and nothing sent,
\* whatever the handler of the other connection holds and whatever the
\* handler that served this client before held.
C15_ConnectionStartsEmpty ==
    [][Accepts =>
          /\ audio_buffer' = <<>>
          /\ score_window' = <<>>
          /\ last_detection_time' = 0
          /\ sent' = <<>>
          /\ nrecv' = 0 /\ nframes' = 0
          /\ parked' = parked]_vars

\* C15 witness: the third connection has just been accepted and is empty,
\* while the other connection's handler holds a score and a detection time.
C15_Witness ==
    /\ accepted = 3
    /\ pc = "receive" /\ nrecv = 0
    /\ audio_buffer = <<>> /\ score_window = <<>> /\ last_detection_time = 0
    /\ parked.pc = "receive"
    /\ parked.score_window # <<>>
    /\ parked.last_detection_time > 0

\* C16: a step of one handler (chunk, frame, detection, fault, disconnect,
\* accept) changes nothing of the other's; when the loop changes handler
\* each is resumed exactly as it was left; and a handler that has returned
\* leaves the loop free to turn to the other.
C16_SessionsIsolated ==
    /\ [][/\ cur' = cur => parked' = parked
          /\ cur' # cur => Awaiting /\ parked' = SessionState /\ SessionState' = parked]_vars
    /\ [](pc = "closed" /\ parked.pc = "receive" /\ LoopFree => ENABLED Switch)

\* C16 witness: one connection's handler was ended by the engine raising,
\* and the other has scored two frames and sent a detection.
C16_Witness ==
    /\ parked.pc = "closed" /\ parked.raised = "predict"
    /\ pc = "receive"
    /\ nframes = 2
    /\ Len(Detections) = 1
    /\ score_window # <<>>

\* The session has a chunk it could receive.
ChunkAvailable == pc = "receive" /\ \E n \in ChunkLens : nrecv + n <= MaxSamplesShared

\* C17 as stated: while model.tts is generating for a request, a session
\* that has a chunk available can receive it.
C17_SynthesisNeverBlocks ==
    tts_pc = "tts" /\ ChunkAvailable => ENABLED ReceiveBytesShared

\* The text is empty or whitespace only.
Blank(t) == \A i \in 1..Len(t) : t[i] \in Whitespace

\* tts_endpoint is handling a request.
Handling == tts_pc # "idle"

\* C18: while a request with an empty or whitespace-only text is handled
\* model.tts is not called, and the request ends with an error response
\* (400, or 503 when there is no engine).
C18_BlankTextRejected ==
    [][Handling /\ Blank(request.text) =>
          /\ tts_calls' = tts_calls
          /\ tts_pc' # "tts"
          /\ tts_pc' = "idle" => response' \in {400, 503}]_vars

\* C18 witness: after a request that was synthesized, a whitespace-only
\* text was answered 400 by the loaded engine's handler.
C18_Witness ==
    /\ tts_pc = "idle"
    /\ request.text = <<" ", "\t">>
    /\ response = 400
    /\ mars5_model = "Model"
    /\ Len(tts_calls) = 1

Magnitude(x) == IF x < 0 THEN -x ELSE x

Peak(c) ==
    CHOOSE m \in {Magnitude(c[i]) : i \in 1..Len(c)} :
        \A i \in 1..Len(c) : Magnitude(c[i]) <= m

\* C21 as stated: the normalizer gives back, sample for sample, a frame that
\* is silent (peak 0) or already loud (peak >= 5000), at its first
\* application and at the one after it.
C21_SilentOrLoudUnchanged ==
    passes >= 1 /\ (Peak(frame) = 0 \/ Peak(frame) >= 5000) => normalized = frame

\* The sample x of a frame of peak p times min(10000 / p, 3), without its
\* fraction.
Boosted(x, p) == IF 3 * p <= 10000 THEN 3 * x ELSE Trunc(10000 * x, p)

\* C22: for a quiet frame (0 < peak < 5000) every output sample is the input
\* sample times min(10000 / peak, 3.0), without its fraction, which lies in
\* the range of int16: the sign is kept and the magnitude does not shrink.
C22_QuietFrameBoosted ==
    passes >= 1 /\ Peak(frame) > 0 /\ Peak(frame) < 5000 =>
        \A i \in 1..Len(frame) :
            /\ normalized[i] = Boosted(frame[i], Peak(frame))
            /\ normalized[i] \in -32768..32767
            /\ (normalized[i] < 0) = (frame[i] < 0)
            /\ Magnitude(normalized[i]) >= Magnitude(frame[i])

\* C22 witness: a frame of peak 4999 was boosted by 10000 / 4999, a frame of
\* peak 100 by 3.
C22_Witness ==
    /\ passes = 1
    /\ \/ frame = <<-4999, 3334>> /\ normalized = <<-10000, 6669>>
       \/ frame = <<100, -1>> /\ normalized = <<300, -3>>

\* The call of model.tts made in this step.
Calls == tts_calls' # tts_calls
TheCall == tts_calls'[Len(tts_calls')]

\* C23 as stated: the mode of a request's synthesis is the caller's flag:
\* deep clone for deep_clone = true, shallow clone for deep_clone = false.
C23_ModeFollowsFlag ==
    [][Calls => TheCall.deep_clone = request.deep_clone]_vars

\* C23 amended: a request is synthesized in deep clone mode, with the
\* reference audio and its transcript, exactly when its flag is true and
\* the reference audio was loaded; in every other case, deep_clone = true
\* without reference audio included, in shallow clone mode without a
\* transcript.
C23_ModeFollowsFlagAndReference ==
    [][Calls =>
          /\ tts_calls' = Append(tts_calls, TheCall)
          /\ TheCall.text = request.text
          /\ TheCall.deep_clone = (request.deep_clone /\ mars5_ref_audio)
          /\ TheCall.ref_transcript = TheCall.deep_clone
          /\ TheCall.ref_audio = IF mars5_ref_audio THEN "mars5_ref_audio" ELSE "dummy_ref"]_vars

\* C23 witness: with the reference audio loaded one request was synthesized
\* in deep clone mode and the next one in shallow clone mode.
C23_Witness ==
    /\ mars5_ref_audio
    /\ Len(tts_calls) = 2
    /\ tts_calls[1].deep_clone /\ tts_calls[1].ref_transcript
    /\ ~tts_calls[2].deep_clone /\ ~tts_calls[2].ref_transcript

\* A handler is inside its loop.
Running(p) == p \in {"receive", "extract", "for"}

\* C24: the engine is constructed at most once: there is a constructed
\* engine exactly when wake_model is set, a set wake_model is never
\* constructed again or unset, and every handler inside its loop holds that
\* one engine.
C24_EngineConstructedOnce ==
    /\ [](/\ constructions <= 1
          /\ (wake_model = "Model") = (constructions = 1)
          /\ Running(pc) => model = 1
          /\ Running(parked.pc) => parked.model = 1)
    /\ [][wake_model = "Model" =>
              wake_model' = "Model" /\ constructions' = constructions]_vars

\* C24 witness: three connections have been opened, one engine has been
\* constructed, and the two handlers in their loops hold it.
C24_Witness ==
    /\ accepted = 3
    /\ constructions = 1
    /\ pc = "receive" /\ model = 1
    /\ parked.pc = "receive" /\ parked.model = 1

\* C25: when the generation call raises, the request ends with status 500
\* and not with 200; a 400 or 503 raised in the handler is the status of
\* the response; and a 200 is the response of a request in which nothing
\* was raised.
C25_GenerationFailureGives500 ==
    [][Handling /\ tts_pc' = "idle" =>
          /\ tts_pc = "tts" /\ tts_error'.kind = "Exception" => response' = 500
          /\ tts_error'.kind = "HTTPException" =>
                /\ tts_error'.status_code \in {400, 503}
                /\ response' = tts_error'.status_code
          /\ response' = 200 => tts_error'.kind = "none" /\ tts_pc = "tts"]_vars

\* C25 witness: model.tts raised for a request with a text and the request
\* got 500.
C25_Witness ==
    /\ tts_pc = "idle"
    /\ ~Blank(request.text)
    /\ Len(tts_calls) = 1
    /\ tts_error = Exception
    /\ response = 500

\* C26: a detection whose send fails leaves last_detection_time as it was
\* and the window with the firing score in it, uncleared, and the handler
\* goes on; the next observation, if it is fire-worthy, is sent or fails to
\* be sent, and is not suppressed.
C26_SendFailureKeepsState ==
    [][/\ BodyStep /\ outcome' = "send_failed" =>
            /\ last_detection_time' = last_detection_time
            /\ score_window' = Observed(score_window, BodyScore)
            /\ sent' = sent
            /\ Running(pc')
       /\ BodyStep /\ outcome = "send_failed" /\ FireWorthy(score_window, BodyScore) =>
            outcome' \in {"sent", "send_failed"}]_vars

\* C26 witness: the first frame scored 0.9 and its send failed; the second
\* frame, scoring 0.1 at the same clock reading, fired on the average with
\* the 0.9 still in the window, and was sent.
C26_Witness ==
    /\ nframes = 2
    /\ outcome = "sent"
    /\ Len(sent) = 1
    /\ sent[1].score = 10
    /\ sent[1].timestamp = ClockAtAccept

\* C27: every observation is pushed before the decision: the average and the
\* decision are those of the window with the score in it, and unless a
\* detection is sent the window after the step is that window, for a
\* suppressed observation as for one below the thresholds.
C27_PushedBeforeDecision ==
    [][BodyStep /\ Running(pc') =>
          LET w == Observed(score_window, BodyScore)
          IN  /\ avg_score'.num = TotalTo(w, Len(w))
              /\ avg_score'.den = Len(w)
              /\ should_detect' = FireWorthy(score_window, BodyScore)
              /\ outcome' \in {"below", "debounced", "send_failed"} => score_window' = w
              /\ outcome' = "sent" => score_window' = <<>>]_vars

\* C27 witness: after a detection a frame scoring 0.4 was suppressed, its
\* score stayed in the window and the next frame, scoring 0.1, had the
\* average 0.25 with it.
C27_Witness ==
    /\ nframes = 3
    /\ Len(sent) = 1
    /\ now - sent[1].timestamp < DEBOUNCE_SECONDS
    /\ score_window = <<40, 10>>
    /\ avg_score = [num |-> 50, den |-> 2]
    /\ outcome = "below"

\* C28: with an empty window the moving average of the next observation is
\* its score, and the observation is fire-worthy exactly when the score is
\* above THRESHOLD (0.35).
C28_EmptyWindowNoDamping ==
    [][BodyStep /\ score_window = <<>> /\ Running(pc') =>
          /\ avg_score'.num = BodyScore * avg_score'.den
          /\ should_detect' = (BodyScore > THRESHOLD)]_vars

\* C28 witness: the window was empty after a detection, and the next frame,
\* scoring 0.4, below HIGH_THRESHOLD, was fire-worthy alone in the window.
C28_Witness ==
    /\ nframes = 2
    /\ Len(sent) = 1
    /\ score = 40
    /\ score_window = <<40>>
    /\ should_detect
    /\ outcome = "debounced"

\* C29: the load is attempted once in the process: after the attempt,
\* failed or not, mars5_model keeps its value and torch.hub.load is not
\* called again, and every request that finds the failed mark ends with 503.
C29_LoadAttemptedOnce ==
    /\ [](loads <= 1 /\ (mars5_model = "None") = (loads = 0))
    /\ [][/\ mars5_model # "None" => mars5_model' = mars5_model /\ loads' = loads
          /\ Handling /\ tts_pc' = "idle" /\ mars5_model = "False" => response' = 503]_vars

\* C29 witness: the load failed in the first request; the second request
\* made no attempt and got 503.
C29_Witness ==
    /\ nreq = 2
    /\ loads = 1
    /\ mars5_model = "False"
    /\ tts_pc = "idle"
    /\ tts_error = HTTPException(503)
    /\ response = 503

\* C30: availability is checked before the text: a request that ends
\* without an engine gets 503 whatever its text, and 400 is the response
\* only of a request with a missing text handled with the engine loaded.
C30_AvailabilityBeforeText ==
    [][Handling /\ tts_pc' = "idle" =>
          /\ mars5_model # "Model" => response' = 503
          /\ response' = 400 => mars5_model = "Model" /\ Blank(request.text)]_vars

\* C30 witness: an empty text, no engine, and the response is 503.
C30_Witness ==
    /\ tts_pc = "idle"
    /\ request.text = <<>>
    /\ mars5_model = "False"
    /\ response = 503

\* The handler was ended by the client's disconnect.
Disconnected == raised = "receive_bytes: WebSocketDisconnect"

\* C31: a disconnect is met at receive_bytes, with less than a frame in the
\* buffer and every frame extracted already through its loop body; the step
\* sends nothing and makes no attempt to send an error message, and the
\* handler it ends has sent no error message and takes no step after it:
\* no frame is extracted from what the buffer held and nothing more is sent.
C31_DisconnectSilent ==
    /\ [][Disconnected' /\ ~Disconnected =>
              /\ pc = "receive"
              /\ Len(audio_buffer) < CHUNK_SIZE
              /\ nframes * CHUNK_SIZE + Len(audio_buffer) = nrecv
              /\ nframes > 0 => mdl = Len(models)
              /\ sent' = sent
              /\ error_sends' = error_sends
              /\ pc' = "closed"]_vars
    /\ [][Disconnected => pc' = "closed" /\ sent' = sent /\ nframes' = nframes]_vars
    /\ [](Disconnected => pc = "closed" /\ error_sends = 0 /\ Errors = <<>>)

\* C31 witness: the client left after a detection had been sent; the
\* detection is all the client was sent.
C31_Witness ==
    /\ Disconnected
    /\ pc = "closed"
    /\ Len(sent) = 1
    /\ IsDetection(sent[1])
    /\ error_sends = 0

\* C32: after the normalization of a quiet frame (0 < peak < 5000) the peak
\* is at most 10000 and at most three times the peak before, and every
\* sample is the boosted one as it was before the clip.
C32_BoostWithinTarget ==
    passes >= 1 /\ Peak(frame) > 0 /\ Peak(frame) < 5000 =>
        /\ Peak(normalized) <= 10000
        /\ Peak(normalized) <= 3 * Peak(frame)
        /\ \A i \in 1..Len(frame) :
              /\ Boosted(frame[i], Peak(frame)) \in -32768..32767
              /\ normalized[i] = Boosted(frame[i], Peak(frame))

\* C32 witness: a frame of peak 3400 came out with peak 10000, the target.
C32_Witness ==
    /\ passes = 1
    /\ Peak(frame) = 3400
    /\ Peak(normalized) = 10000

====
